---- MODULE Spec2Model ----
(***************************************************************************)
(* page_layout::Settings (filters/page_layout/Settings.cpp): a registry of *)
(* per-page layout parameters kept in a boost::multi_index_container with  *)
(* a unique index on the page id and two non-unique indices ordered by     *)
(* descending hard width and descending hard height.                       *)
(***************************************************************************)
EXTENDS Integers, Sequences, FiniteSets, TLC

VARIABLES m_items, m_descWidthOrder, m_descHeightOrder, written, last,
          m_mutex, pc, call

vars == <<m_items, m_descWidthOrder, m_descHeightOrder, written, last,
          m_mutex, pc, call>>

(***************************************************************************)
(* Bounds of the model.                                                    *)
(***************************************************************************)
MaxSize == 1

(***************************************************************************)
(* Value types.                                                            *)
(***************************************************************************)
NullPageId == 0

\* Two page ids: enough for a front and a runner-up in each order.
PageIds == {1, 2}

Margins(l, t, r, b) == [left |-> l, top |-> t, right |-> r, bottom |-> b]

QSizeF(w, h) == [width |-> w, height |-> h]

QRectF(x, y, w, h) == [x |-> x, y |-> y, width |-> w, height |-> h]

NullRect == QRectF(0, 0, 0, 0)

Alignment(v, h) == [vert |-> v, hor |-> h]

Params(margins, rect, size, align) ==
    [hardMarginsMM |-> margins, contentRect |-> rect,
     contentSizeMM |-> size, alignment |-> align]

Item(page_id, hard_margins_mm, content_rect, content_size_mm, align) ==
    [pageId |-> page_id, hardMarginsMM |-> hard_margins_mm,
     contentRect |-> content_rect, contentSizeMM |-> content_size_mm,
     alignment |-> align]

hardWidthMM(item) ==
    item.contentSizeMM.width + item.hardMarginsMM.left + item.hardMarginsMM.right

hardHeightMM(item) ==
    item.contentSizeMM.height + item.hardMarginsMM.top + item.hardMarginsMM.bottom

m_zeroSize == QSizeF(0, 0)

\* The default margins with the arguments in the order left, right, top, bottom.
DefaultMarginsArgumentsSwapped == Margins(10, 10, 5, 5)

m_defaultHardMarginsMM == Margins(10, 5, 10, 5)

m_defaultAlignment == Alignment("VCENTER", "HCENTER")

(***************************************************************************)
(* Inputs the callers supply.                                              *)
(***************************************************************************)
MarginsInputs == {m_defaultHardMarginsMM, Margins(0, 0, 0, 0)}

AlignmentInputs == {m_defaultAlignment, Alignment("TOP", "LEFT")}

\* The content rect a content zone is set with.
RectInputs == {QRectF(1, 1, 2, 3)}

\* The content sizes a content zone is set with, in mm.
ContentSizeInputs == {QSizeF(0, 0), QSizeF(1, 0), QSizeF(0, 1)}

\* The hypothetical sizes of the what-if query, in mm: those of perimeter half
\* at most MaxSize.
SizeInputs ==
    {s \in {QSizeF(w, h) : w \in 0..MaxSize, h \in 0..MaxSize} :
        s.width + s.height <= MaxSize}

(***************************************************************************)
(* The container.  index 0 (ordered_unique on pageId) is the sequence      *)
(* items; the two ordered_non_unique indices are sequences of page ids,    *)
(* front first.                                                            *)
(***************************************************************************)
Container(items, dw, dh) == [items |-> items, dw |-> dw, dh |-> dh]

InsertAt(s, i, x) == SubSeq(s, 1, i - 1) \o <<x>> \o SubSeq(s, i, Len(s))

RemoveAt(s, i) == SubSeq(s, 1, i - 1) \o SubSeq(s, i + 1, Len(s))

IndexOf(s, x) == IF \E i \in 1..Len(s) : s[i] = x
                 THEN CHOOSE i \in 1..Len(s) : s[i] = x
                 ELSE Len(s) + 1

\* m_items.find(page_id): the position of the item, Len + 1 for end().
find(items, page_id) ==
    IF \E i \in 1..Len(items) : items[i].pageId = page_id
    THEN CHOOSE i \in 1..Len(items) : items[i].pageId = page_id
    ELSE Len(items) + 1

\* m_items.lower_bound(page_id): the first item whose id is not less.
lower_bound(items, page_id) ==
    IF \E i \in 1..Len(items) : ~(items[i].pageId < page_id)
    THEN CHOOSE i \in 1..Len(items) :
            /\ ~(items[i].pageId < page_id)
            /\ \A j \in 1..(i - 1) : items[j].pageId < page_id
    ELSE Len(items) + 1

ItemOf(items, page_id) == items[find(items, page_id)]

\* std::greater<double>, the comparison of both non-unique indices.
comp(a, b) == a > b

\* The keys of an order, front to back.
WidthKeys(items, dw) == [i \in 1..Len(dw) |-> hardWidthMM(ItemOf(items, dw[i]))]

HeightKeys(items, dh) == [i \in 1..Len(dh) |-> hardHeightMM(ItemOf(items, dh[i]))]

\* ordered_index lower_link_point: before the first key not ordered before k.
lower_link_point(ks, k) ==
    IF \E i \in 1..Len(ks) : ~comp(ks[i], k)
    THEN CHOOSE i \in 1..Len(ks) :
            /\ ~comp(ks[i], k)
            /\ \A j \in 1..(i - 1) : comp(ks[j], k)
    ELSE Len(ks) + 1

\* ordered_index link_point (non-unique): after the last key k is not ordered before.
link_point(ks, k) ==
    IF \E i \in 1..Len(ks) : comp(k, ks[i])
    THEN CHOOSE i \in 1..Len(ks) :
            /\ comp(k, ks[i])
            /\ \A j \in 1..(i - 1) : ~comp(k, ks[j])
    ELSE Len(ks) + 1

\* ordered_index hinted_link_point (non-unique): p is the hint's position in
\* this order, Len + 1 when the hint is end().
hinted_link_point(ks, k, p) ==
    IF p = 1
    THEN IF Len(ks) > 0 /\ ~comp(ks[1], k) THEN 1 ELSE lower_link_point(ks, k)
    ELSE IF p = Len(ks) + 1
    THEN IF ~comp(k, ks[Len(ks)]) THEN Len(ks) + 1 ELSE link_point(ks, k)
    ELSE IF ~comp(k, ks[p - 1])
         THEN IF ~comp(ks[p], k) THEN p ELSE lower_link_point(ks, k)
         ELSE link_point(ks, k)

\* in_place that takes a node with a neighbour of equal key to be out of place.
in_placeStrict(ks, p) ==
    /\ (p > 1 => comp(ks[p - 1], ks[p]))
    /\ (p < Len(ks) => comp(ks[p], ks[p + 1]))

\* ordered_index in_place (non-unique): does position p still fit its neighbours?
in_place(ks, p) ==
    /\ (p > 1 => ~comp(ks[p], ks[p - 1]))
    /\ (p < Len(ks) => ~comp(ks[p + 1], ks[p]))

\* One non-unique index after insert(hint, item): k is the new item's key, hint
\* the page id of the hinted node (NullPageId for end()).
OrderInsert(order, ks, page_id, k, hint) ==
    InsertAt(order,
             hinted_link_point(ks, k,
                 IF hint = NullPageId THEN Len(order) + 1 ELSE IndexOf(order, hint)),
             page_id)

\* modify() that never moves the node.
OrderModifyNoRelink(order, ks, page_id) == order

\* modify() that unlinks and links the node again without asking in_place.
OrderModifyAlwaysRelink(order, ks, page_id) ==
    LET p == IndexOf(order, page_id)
    IN  InsertAt(RemoveAt(order, p), link_point(RemoveAt(ks, p), ks[p]), page_id)

\* One non-unique index after modify(): ks are the keys after the modifier ran.
OrderModify(order, ks, page_id) ==
    LET p == IndexOf(order, page_id)
    IN  IF in_place(ks, p)
        THEN order
        ELSE InsertAt(RemoveAt(order, p),
                      link_point(RemoveAt(ks, p), ks[p]),
                      page_id)

\* m_items.insert(it, item): refused when the unique index already holds the id.
insert(C, it, item) ==
    IF find(C.items, item.pageId) <= Len(C.items)
    THEN C
    ELSE LET hint == IF it > Len(C.items) THEN NullPageId ELSE C.items[it].pageId
             pos == lower_bound(C.items, item.pageId)
         IN  Container(
                InsertAt(C.items, pos, item),
                OrderInsert(C.dw, WidthKeys(C.items, C.dw),
                            item.pageId, hardWidthMM(item), hint),
                OrderInsert(C.dh, HeightKeys(C.items, C.dh),
                            item.pageId, hardHeightMM(item), hint))

\* modify() that places the node by the keys it had before the modifier ran.
modifyByOldKeys(C, it, item) ==
    Container(
        [C.items EXCEPT ![it] = item],
        OrderModify(C.dw, WidthKeys(C.items, C.dw), item.pageId),
        OrderModify(C.dh, HeightKeys(C.items, C.dh), item.pageId))

\* modify() that erases the node when it no longer fits its place in an index.
modifyErasingMoved(C, it, item) ==
    LET items == [C.items EXCEPT ![it] = item]
        p == IndexOf(C.dw, item.pageId)
        q == IndexOf(C.dh, item.pageId)
    IN  IF in_place(WidthKeys(items, C.dw), p) /\ in_place(HeightKeys(items, C.dh), q)
        THEN Container(items, C.dw, C.dh)
        ELSE Container(RemoveAt(C.items, it), RemoveAt(C.dw, p), RemoveAt(C.dh, q))

\* m_items.modify(it, mod): item is *it after the modifier ran.
modify(C, it, item) ==
    LET items == [C.items EXCEPT ![it] = item]
    IN  Container(
            items,
            OrderModify(C.dw, WidthKeys(items, C.dw), item.pageId),
            OrderModify(C.dh, HeightKeys(items, C.dh), item.pageId))

(***************************************************************************)
(* The modifiers handed to modify().                                       *)
(***************************************************************************)
ModifyMargins(margins_mm, item) == [item EXCEPT !.hardMarginsMM = margins_mm]

ModifyAlignment(alignment, item) == [item EXCEPT !.alignment = alignment]

ModifyContentSize(content_size_mm, item) ==
    [item EXCEPT !.contentSizeMM = content_size_mm]

(***************************************************************************)
(* Settings::Impl, one operator per method: the writers give the container *)
(* after the call, the readers the value returned.                         *)
(***************************************************************************)
NullParams == [null |-> TRUE]

\* Does lower_bound's result it miss page_id (end(), or a greater id)?
NotFoundAt(items, it, page_id) ==
    it = Len(items) + 1 \/ page_id < items[it].pageId

getPageParams(C, page_id) ==
    LET it == find(C.items, page_id)
    IN  IF it = Len(C.items) + 1
        THEN NullParams
        ELSE Params(C.items[it].hardMarginsMM, C.items[it].contentRect,
                    C.items[it].contentSizeMM, C.items[it].alignment)

\* getHardMarginsMM that looks the page up with lower_bound and no id check.
getHardMarginsMMByLowerBound(C, page_id) ==
    LET it == lower_bound(C.items, page_id)
    IN  IF it = Len(C.items) + 1
        THEN m_defaultHardMarginsMM
        ELSE C.items[it].hardMarginsMM

getHardMarginsMM(C, page_id) ==
    LET it == find(C.items, page_id)
    IN  IF it = Len(C.items) + 1
        THEN m_defaultHardMarginsMM
        ELSE C.items[it].hardMarginsMM

\* getHardMarginsMM that stores the default entry it answers an absent page with.
getHardMarginsMMByInserting(C, page_id) ==
    LET it == lower_bound(C.items, page_id)
    IN  IF NotFoundAt(C.items, it, page_id)
        THEN insert(C, it, Item(page_id, m_defaultHardMarginsMM, NullRect,
                                m_zeroSize, m_defaultAlignment))
        ELSE C

\* The container after getHardMarginsMM, a const method.
getHardMarginsMMEffect(C, page_id) == C

setHardMarginsMM(C, page_id, margins_mm) ==
    LET it == lower_bound(C.items, page_id)
    IN  IF NotFoundAt(C.items, it, page_id)
        THEN insert(C, it, Item(page_id, margins_mm, NullRect,
                                m_zeroSize, m_defaultAlignment))
        ELSE modify(C, it, ModifyMargins(margins_mm, C.items[it]))

getPageAlignment(C, page_id) ==
    LET it == find(C.items, page_id)
    IN  IF it = Len(C.items) + 1
        THEN m_defaultAlignment
        ELSE C.items[it].alignment

\* setPageAlignment that creates the entry of an absent page with no margins.
setPageAlignmentWithoutMargins(C, page_id, alignment) ==
    LET it == lower_bound(C.items, page_id)
    IN  IF NotFoundAt(C.items, it, page_id)
        THEN insert(C, it, Item(page_id, Margins(0, 0, 0, 0), NullRect,
                                m_zeroSize, alignment))
        ELSE modify(C, it, ModifyAlignment(alignment, C.items[it]))

setPageAlignment(C, page_id, alignment) ==
    LET it == lower_bound(C.items, page_id)
    IN  IF NotFoundAt(C.items, it, page_id)
        THEN insert(C, it, Item(page_id, m_defaultHardMarginsMM, NullRect,
                                m_zeroSize, alignment))
        ELSE modify(C, it, ModifyAlignment(alignment, C.items[it]))

setContentZone(C, page_id, content_rect, content_size_mm) ==
    LET it == lower_bound(C.items, page_id)
    IN  IF NotFoundAt(C.items, it, page_id)
        THEN insert(C, it, Item(page_id, m_defaultHardMarginsMM, content_rect,
                                content_size_mm, m_defaultAlignment))
        ELSE modify(C, it, ModifyContentSize(content_size_mm, C.items[it]))

\* getAggregateHardSizeMM that takes both extents from the widest item.
getAggregateHardSizeMMOfWidest(C) ==
    IF Len(C.items) = 0
    THEN QSizeF(0, 0)
    ELSE QSizeF(hardWidthMM(ItemOf(C.items, C.dw[1])),
                hardHeightMM(ItemOf(C.items, C.dw[1])))

getAggregateHardSizeMM(C) ==
    IF Len(C.items) = 0
    THEN QSizeF(0, 0)
    ELSE QSizeF(hardWidthMM(ItemOf(C.items, C.dw[1])),
                hardHeightMM(ItemOf(C.items, C.dh[1])))

Max(a, b) == IF a < b THEN b ELSE a

\* The axis computed without stepping past the page's own node.
WhatIfAxisNoAdvance(order, ks, page_id, hard) ==
    IF order[1] # page_id THEN ks[1] ELSE Max(hard, ks[1])

\* The axis that weighs the hypothetical extent against the front node as well.
WhatIfAxisMaxWithFront(order, ks, page_id, hard) ==
    IF order[1] # page_id
    THEN Max(hard, ks[1])
    ELSE IF Len(order) = 1
         THEN hard
         ELSE Max(hard, ks[2])

\* One axis of the two-argument getAggregateHardSizeMM: order is the index,
\* ks its keys, hard the hypothetical extent on this axis.
WhatIfAxis(order, ks, page_id, hard) ==
    IF order[1] # page_id
    THEN ks[1]
    ELSE IF Len(order) = 1
         THEN hard
         ELSE Max(hard, ks[2])

\* The two-argument getAggregateHardSizeMM that answers an empty store with the
\* hypothetical size.
getAggregateHardSizeMM2EmptyIsHypothetical(C, page_id, hard_size_mm) ==
    IF Len(C.items) = 0
    THEN hard_size_mm
    ELSE QSizeF(WhatIfAxis(C.dw, WidthKeys(C.items, C.dw), page_id,
                           hard_size_mm.width),
                WhatIfAxis(C.dh, HeightKeys(C.items, C.dh), page_id,
                           hard_size_mm.height))

getAggregateHardSizeMM2(C, page_id, hard_size_mm) ==
    IF Len(C.items) = 0
    THEN QSizeF(0, 0)
    ELSE QSizeF(WhatIfAxis(C.dw, WidthKeys(C.items, C.dw), page_id,
                           hard_size_mm.width),
                WhatIfAxis(C.dh, HeightKeys(C.items, C.dh), page_id,
                           hard_size_mm.height))

\* The what-if query answered by writing the hypothetical size into the store.
getAggregateHardSizeMM2ByWriting(C, page_id, hard_size_mm) ==
    setContentZone(C, page_id, NullRect, hard_size_mm)

\* The container after the two-argument getAggregateHardSizeMM, a const method.
getAggregateHardSizeMM2Effect(C, page_id, hard_size_mm) == C

\* findWidestPage that answers from the front of the page id index.
findWidestPageOfIdIndex(C) ==
    IF Len(C.items) = 0 THEN NullPageId ELSE C.items[1].pageId

findWidestPage(C) ==
    IF Len(C.items) = 0 THEN NullPageId ELSE C.dw[1]

findTallestPage(C) ==
    IF Len(C.items) = 0 THEN NullPageId ELSE C.dh[1]

(***************************************************************************)
(* The state machine: one action per public operation.  last records the   *)
(* latest call: its arguments, whether the page was stored before it,      *)
(* whether it repeats the call before it, and the value returned.          *)
(***************************************************************************)
Cont == Container(m_items, m_descWidthOrder, m_descHeightOrder)

\* The value of m_mutex while no thread holds it.
NoThread == 0

\* Two calling threads: one inside the store, one at the mutex.
Threads == {1, 2}

NoArg == [none |-> TRUE]

Void == [void |-> TRUE]

Stored(page_id) == find(m_items, page_id) <= Len(m_items)

Call(op, page_id, arg, ret) ==
    [op |-> op, pageId |-> page_id, arg |-> arg, found |-> Stored(page_id),
     again |-> FALSE, ret |-> ret]

\* The call of a thread that is in no method.
NoCall ==
    [op |-> "none", pageId |-> NullPageId, arg |-> NoArg, found |-> FALSE,
     early |-> FALSE, ret |-> Void, before |-> NoArg]

Repeats(op, page_id, arg) ==
    last.op = op /\ last.pageId = page_id /\ last.arg = arg

Write(C, op, page_id, arg) ==
    /\ \E after \in {C} :
          /\ m_items' = after.items
          /\ m_descWidthOrder' = after.dw
          /\ m_descHeightOrder' = after.dh
    /\ written' = written \cup {page_id}
    /\ last' = [Call(op, page_id, arg, Void) EXCEPT
                    !.again = Repeats(op, page_id, arg)]
    /\ UNCHANGED <<m_mutex, pc, call>>

Read(C, op, page_id, arg, ret) ==
    /\ \E after \in {C} :
          /\ m_items' = after.items
          /\ m_descWidthOrder' = after.dw
          /\ m_descHeightOrder' = after.dh
    /\ UNCHANGED written
    /\ last' = Call(op, page_id, arg, ret)
    /\ UNCHANGED <<m_mutex, pc, call>>

Init ==
    /\ m_items = <<>>
    /\ m_descWidthOrder = <<>>
    /\ m_descHeightOrder = <<>>
    /\ written = {}
    /\ last = [op |-> "init", pageId |-> NullPageId, arg |-> NoArg,
               found |-> FALSE, again |-> FALSE, ret |-> Void]
    /\ m_mutex = NoThread
    /\ pc = [t \in Threads |-> "idle"]
    /\ call = [t \in Threads |-> NoCall]

GetPageParams ==
    \E page_id \in PageIds :
        Read(Cont, "getPageParams", page_id, NoArg, getPageParams(Cont, page_id))

GetHardMarginsMM ==
    \E page_id \in PageIds :
        Read(getHardMarginsMMEffect(Cont, page_id), "getHardMarginsMM", page_id,
             NoArg, getHardMarginsMM(Cont, page_id))

SetHardMarginsMM ==
    \E page_id \in PageIds, margins_mm \in MarginsInputs :
        Write(setHardMarginsMM(Cont, page_id, margins_mm),
              "setHardMarginsMM", page_id, margins_mm)

GetPageAlignment ==
    \E page_id \in PageIds :
        Read(Cont, "getPageAlignment", page_id, NoArg,
             getPageAlignment(Cont, page_id))

SetPageAlignment ==
    \E page_id \in PageIds, alignment \in AlignmentInputs :
        Write(setPageAlignment(Cont, page_id, alignment),
              "setPageAlignment", page_id, alignment)

SetContentZone ==
    \E page_id \in PageIds, content_rect \in RectInputs,
       content_size_mm \in ContentSizeInputs :
        Write(setContentZone(Cont, page_id, content_rect, content_size_mm),
              "setContentZone", page_id,
              [rect |-> content_rect, size |-> content_size_mm])

GetAggregateHardSizeMM ==
    Read(Cont, "getAggregateHardSizeMM", NullPageId, NoArg,
         getAggregateHardSizeMM(Cont))

GetAggregateHardSizeMM2 ==
    \E page_id \in PageIds, hard_size_mm \in SizeInputs :
        Read(getAggregateHardSizeMM2Effect(Cont, page_id, hard_size_mm),
             "getAggregateHardSizeMM2", page_id, hard_size_mm,
             getAggregateHardSizeMM2(Cont, page_id, hard_size_mm))

FindWidestPage ==
    Read(Cont, "findWidestPage", NullPageId, NoArg, findWidestPage(Cont))

FindTallestPage ==
    Read(Cont, "findTallestPage", NullPageId, NoArg, findTallestPage(Cont))

Next ==
    \/ GetPageParams
    \/ GetHardMarginsMM
    \/ SetHardMarginsMM
    \/ GetPageAlignment
    \/ SetPageAlignment
    \/ SetContentZone
    \/ GetAggregateHardSizeMM
    \/ GetAggregateHardSizeMM2
    \/ FindWidestPage
    \/ FindTallestPage

Spec == Init /\ [][Next]_vars

(***************************************************************************)
(* Vocabulary of the properties.                                           *)
(***************************************************************************)
WriteOps == {"setHardMarginsMM", "setPageAlignment", "setContentZone"}

ItemSet == {m_items[i] : i \in 1..Len(m_items)}

StoredIds == {item.pageId : item \in ItemSet}

MaxOf(S) == CHOOSE x \in S : \A y \in S : y <= x

Occurrences(order, page_id) == Cardinality({i \in 1..Len(order) : order[i] = page_id})

NonIncreasing(ks) == \A i \in 1..(Len(ks) - 1) : ks[i] >= ks[i + 1]

\* The hard extents recomputed from an entry's fields.
Width(item) ==
    item.contentSizeMM.width + item.hardMarginsMM.left + item.hardMarginsMM.right

Height(item) ==
    item.contentSizeMM.height + item.hardMarginsMM.top + item.hardMarginsMM.bottom

(***************************************************************************)
(* Concurrent callers.  Every method of Settings::Impl starts with          *)
(* QMutexLocker const locker(&m_mutex): the thread waits for m_mutex, runs  *)
(* the method body while it holds it, and releases it when locker goes out  *)
(* of scope at any return.  A writer's body is taken in three steps: the    *)
(* node's value and the page id index, then the width index, then the       *)
(* height index; between them the indices disagree with the values.  Each   *)
(* thread makes one call; call[t].before is the container it found when it  *)
(* got the mutex, call[t].ret the value it returns.                         *)
(***************************************************************************)
ReadOps == {"getPageParams", "getHardMarginsMM", "getPageAlignment",
            "getAggregateHardSizeMM", "getAggregateHardSizeMM2",
            "findWidestPage", "findTallestPage"}

\* The calls a thread can make: method, page id, argument.
Calls ==
    {[op |-> o, pageId |-> k, arg |-> NoArg] :
        o \in {"getPageParams", "getHardMarginsMM", "getPageAlignment"},
        k \in PageIds}
    \cup {[op |-> "setHardMarginsMM", pageId |-> k, arg |-> m] :
            k \in PageIds, m \in MarginsInputs}
    \cup {[op |-> "setPageAlignment", pageId |-> k, arg |-> a] :
            k \in PageIds, a \in AlignmentInputs}
    \cup {[op |-> "setContentZone", pageId |-> k,
           arg |-> [rect |-> r, size |-> z]] :
            k \in PageIds, r \in RectInputs, z \in ContentSizeInputs}
    \cup {[op |-> o, pageId |-> NullPageId, arg |-> NoArg] :
            o \in {"getAggregateHardSizeMM", "findWidestPage", "findTallestPage"}}
    \cup {[op |-> "getAggregateHardSizeMM2", pageId |-> k, arg |-> h] :
            k \in PageIds, h \in SizeInputs}

\* The container after call c ran alone on container C.
Effect(c, C) ==
    CASE c.op = "setHardMarginsMM" -> setHardMarginsMM(C, c.pageId, c.arg)
      [] c.op = "setPageAlignment" -> setPageAlignment(C, c.pageId, c.arg)
      [] c.op = "setContentZone" ->
            setContentZone(C, c.pageId, c.arg.rect, c.arg.size)
      [] c.op = "getHardMarginsMM" -> getHardMarginsMMEffect(C, c.pageId)
      [] c.op = "getAggregateHardSizeMM2" ->
            getAggregateHardSizeMM2Effect(C, c.pageId, c.arg)
      [] OTHER -> C

\* The value call c returns when it runs alone on container C; a PageId is
\* given as a record.
Result(c, C) ==
    CASE c.op = "getPageParams" -> getPageParams(C, c.pageId)
      [] c.op = "getHardMarginsMM" -> getHardMarginsMM(C, c.pageId)
      [] c.op = "getPageAlignment" -> getPageAlignment(C, c.pageId)
      [] c.op = "getAggregateHardSizeMM" -> getAggregateHardSizeMM(C)
      [] c.op = "getAggregateHardSizeMM2" ->
            getAggregateHardSizeMM2(C, c.pageId, c.arg)
      [] c.op = "findWidestPage" -> [pageId |-> findWidestPage(C)]
      [] c.op = "findTallestPage" -> [pageId |-> findTallestPage(C)]
      [] OTHER -> Void

\* Does call c leave its method by the return inside the first if: the one for
\* an absent page or for an empty store?
EarlyReturn(c, C) ==
    \/ /\ c.op \in {"getPageParams", "getHardMarginsMM", "getPageAlignment"}
       /\ find(C.items, c.pageId) = Len(C.items) + 1
    \/ /\ c.op \in {"getAggregateHardSizeMM", "getAggregateHardSizeMM2",
                    "findWidestPage", "findTallestPage"}
       /\ Len(C.items) = 0

\* A locker that never waits.
lockerNeverWaits(mutex) == TRUE

\* QMutexLocker's constructor can return: no thread holds the mutex.
locker(mutex) == mutex = NoThread

\* A mutex that stays locked when the method leaves by an early return.
unlockSkippedOnEarlyReturn(mutex, early) == IF early THEN mutex ELSE NoThread

\* m_mutex after locker went out of scope, whatever the return path.
unlock(mutex, early) == NoThread

\* The hint a new node's insert was given: the node after it in page id order.
Hint(items, page_id) ==
    IF find(items, page_id) >= Len(items)
    THEN NullPageId
    ELSE items[find(items, page_id) + 1].pageId

\* Stores the program reaches before the threads call: the empty one, one entry
\* made by setPageAlignment, and a second, narrower entry before it.
StoresAtStart ==
    {Container(<<>>, <<>>, <<>>),
     setPageAlignment(Container(<<>>, <<>>, <<>>), 2, Alignment("TOP", "LEFT")),
     setHardMarginsMM(
        setPageAlignment(Container(<<>>, <<>>, <<>>), 2, Alignment("TOP", "LEFT")),
        1, Margins(0, 0, 0, 0))}

InitConcurrent ==
    /\ \E C \in StoresAtStart :
          /\ m_items = C.items
          /\ m_descWidthOrder = C.dw
          /\ m_descHeightOrder = C.dh
          /\ written = {C.items[i].pageId : i \in 1..Len(C.items)}
    /\ last = [op |-> "init", pageId |-> NullPageId, arg |-> NoArg,
               found |-> FALSE, again |-> FALSE, ret |-> Void]
    /\ m_mutex = NoThread
    /\ pc = [t \in Threads |-> "idle"]
    /\ call = [t \in Threads |-> NoCall]

\* A thread calls a method and comes to its locker.
Invoke(t) ==
    /\ pc[t] = "idle"
    /\ pc' = [pc EXCEPT ![t] = "lock"]
    /\ \E c \in Calls :
          call' = [call EXCEPT ![t] =
                      [NoCall EXCEPT !.op = c.op, !.pageId = c.pageId,
                                     !.arg = c.arg]]
    /\ UNCHANGED <<m_items, m_descWidthOrder, m_descHeightOrder, written, last,
                   m_mutex>>

\* QMutexLocker const locker(&m_mutex).
Acquire(t) ==
    /\ pc[t] = "lock"
    /\ locker(m_mutex)
    /\ pc' = [pc EXCEPT ![t] = "body"]
    /\ m_mutex' = t
    /\ call' = [call EXCEPT ![t].before = Cont]
    /\ UNCHANGED <<m_items, m_descWidthOrder, m_descHeightOrder, written, last>>

\* The body of a const method, up to its return statement.
ReadBody(t) ==
    /\ pc[t] = "body"
    /\ call[t].op \in ReadOps
    /\ pc' = [pc EXCEPT ![t] = "return"]
    /\ \E after \in {Effect(call[t], Cont)} :
          /\ m_items' = after.items
          /\ m_descWidthOrder' = after.dw
          /\ m_descHeightOrder' = after.dh
    /\ call' = [call EXCEPT ![t].found = Stored(call[t].pageId),
                            ![t].early = EarlyReturn(call[t], Cont),
                            ![t].ret = Result(call[t], Cont)]
    /\ UNCHANGED <<written, last, m_mutex>>

\* The body of a writer up to the node's value: lower_bound, then the new node
\* or the modifier's assignment.
WriteBody(t) ==
    /\ pc[t] = "body"
    /\ call[t].op \in WriteOps
    /\ pc' = [pc EXCEPT ![t] = "width"]
    /\ m_items' = Effect(call[t], Cont).items
    /\ call' = [call EXCEPT ![t].found = Stored(call[t].pageId)]
    /\ written' = written \cup {call[t].pageId}
    /\ UNCHANGED <<m_descWidthOrder, m_descHeightOrder, last, m_mutex>>

\* insert() or modify() in the width index.
LinkWidth(t) ==
    /\ pc[t] = "width"
    /\ pc' = [pc EXCEPT ![t] = "height"]
    /\ m_descWidthOrder' =
          IF call[t].found
          THEN OrderModify(m_descWidthOrder,
                           WidthKeys(m_items, m_descWidthOrder), call[t].pageId)
          ELSE OrderInsert(m_descWidthOrder,
                           WidthKeys(m_items, m_descWidthOrder), call[t].pageId,
                           hardWidthMM(ItemOf(m_items, call[t].pageId)),
                           Hint(m_items, call[t].pageId))
    /\ UNCHANGED <<m_items, m_descHeightOrder, written, last, m_mutex, call>>

\* insert() or modify() in the height index.
LinkHeight(t) ==
    /\ pc[t] = "height"
    /\ pc' = [pc EXCEPT ![t] = "return"]
    /\ m_descHeightOrder' =
          IF call[t].found
          THEN OrderModify(m_descHeightOrder,
                           HeightKeys(m_items, m_descHeightOrder), call[t].pageId)
          ELSE OrderInsert(m_descHeightOrder,
                           HeightKeys(m_items, m_descHeightOrder), call[t].pageId,
                           hardHeightMM(ItemOf(m_items, call[t].pageId)),
                           Hint(m_items, call[t].pageId))
    /\ UNCHANGED <<m_items, m_descWidthOrder, written, last, m_mutex, call>>

\* The return: locker goes out of scope; the caller has call[t].ret.
Return(t) ==
    /\ pc[t] = "return"
    /\ pc' = [pc EXCEPT ![t] = "done"]
    /\ m_mutex' = unlock(m_mutex, call[t].early)
    /\ UNCHANGED <<m_items, m_descWidthOrder, m_descHeightOrder, written, last,
                   call>>

NextConcurrent ==
    \E t \in Threads :
        \/ Invoke(t)
        \/ Acquire(t)
        \/ ReadBody(t)
        \/ WriteBody(t)
        \/ LinkWidth(t)
        \/ LinkHeight(t)
        \/ Return(t)

SpecConcurrent == InitConcurrent /\ [][NextConcurrent]_vars

\* The next step of a thread that has called a method.
Proceed(t) ==
    \/ Acquire(t)
    \/ ReadBody(t)
    \/ WriteBody(t)
    \/ LinkWidth(t)
    \/ LinkHeight(t)
    \/ Return(t)

\* A thread that can take its next step, at its locker while the mutex is free
\* or inside a method body, is scheduled in the end.  Every step changes pc.
Fairness == \A t \in Threads : WF_pc(Proceed(t))

SpecFair == SpecConcurrent /\ Fairness

\* The positions of a thread inside a method body.
Inside == {"body", "width", "height", "return"}

\* C1: at most one entry per page key; each order holds every stored key exactly
\* once and nothing else; front to back, the width order has non-increasing hard
\* width and the height order non-increasing hard height, computed from the
\* entries' current margins and content size.
OrderConsistency ==
    /\ \A i, j \in 1..Len(m_items) :
          m_items[i].pageId = m_items[j].pageId => i = j
    /\ Len(m_descWidthOrder) = Len(m_items)
    /\ Len(m_descHeightOrder) = Len(m_items)
    /\ \A k \in StoredIds :
          /\ Occurrences(m_descWidthOrder, k) = 1
          /\ Occurrences(m_descHeightOrder, k) = 1
    /\ NonIncreasing([i \in 1..Len(m_descWidthOrder) |->
                        Width(ItemOf(m_items, m_descWidthOrder[i]))])
    /\ NonIncreasing([i \in 1..Len(m_descHeightOrder) |->
                        Height(ItemOf(m_items, m_descHeightOrder[i]))])

\* A write to a stored page left two entries of different width and height.
OrderConsistencyWitness ==
    /\ last.op \in WriteOps
    /\ last.found
    /\ Len(m_items) = 2
    /\ Width(m_items[1]) # Width(m_items[2])
    /\ Height(m_items[1]) # Height(m_items[2])
    /\ m_descWidthOrder # m_descHeightOrder

\* C2: on a non-empty store getAggregateHardSizeMM() is (the largest hard width
\* of any entry, the largest hard height of any entry), by a scan of all entries.
AggregateIsBruteForceMax ==
    LET brute == QSizeF(MaxOf({Width(item) : item \in ItemSet}),
                        MaxOf({Height(item) : item \in ItemSet}))
    IN  /\ ItemSet # {} => getAggregateHardSizeMM(Cont) = brute
        /\ (last.op = "getAggregateHardSizeMM" /\ ItemSet # {}) => last.ret = brute

\* The aggregate was asked of a store whose widest entry is not its tallest.
AggregateWitness ==
    /\ last.op = "getAggregateHardSizeMM"
    /\ Len(m_items) = 2
    /\ \E a, b \in ItemSet :
          /\ Width(a) > Width(b)
          /\ Height(b) > Height(a)
          /\ last.ret = QSizeF(Width(a), Height(b))

\* C3: right after setContentZone(key, contentRect, contentSize), getPageParams(key)
\* gives the supplied contentRect and the supplied contentSize.
ContentZoneSetsRectAndSize ==
    last.op = "setContentZone" =>
        /\ getPageParams(Cont, last.pageId).contentRect = last.arg.rect
        /\ getPageParams(Cont, last.pageId).contentSizeMM = last.arg.size

\* The store in which page_id's content size is replaced by size.
WithContentSize(page_id, size) ==
    {IF item.pageId = page_id THEN [item EXCEPT !.contentSizeMM = size] ELSE item :
        item \in ItemSet}

\* C4: for a stored key and any hypothetical size, the two-argument
\* getAggregateHardSizeMM gives the aggregate of the store in which that entry's
\* content size is replaced by the hypothetical size.
WhatIfIsAggregateOfCopy ==
    \A k \in StoredIds, h \in SizeInputs :
        getAggregateHardSizeMM2(Cont, k, h) =
            QSizeF(MaxOf({Width(item) : item \in WithContentSize(k, h)}),
                   MaxOf({Height(item) : item \in WithContentSize(k, h)}))

\* C5: when key is strictly the widest entry, the what-if width is the larger of
\* the hypothetical width and the largest hard width of the other entries; the
\* same for the height when key is strictly the tallest.
WhatIfExclusion ==
    \A k \in StoredIds, h \in SizeInputs :
        LET me == ItemOf(m_items, k)
            others == ItemSet \ {me}
            got == getAggregateHardSizeMM2(Cont, k, h)
        IN  /\ (\A o \in others : Width(me) > Width(o)) =>
                  got.width = MaxOf({h.width} \cup {Width(o) : o \in others})
            /\ (\A o \in others : Height(me) > Height(o)) =>
                  got.height = MaxOf({h.height} \cup {Height(o) : o \in others})

\* The what-if query named the strictly widest and tallest of two entries with a
\* hypothetical size narrower than the other entry, and the other entry's
\* extents came back.
WhatIfExclusionWitness ==
    /\ last.op = "getAggregateHardSizeMM2"
    /\ last.found
    /\ Len(m_items) = 2
    /\ \E o \in ItemSet :
          /\ o.pageId # last.pageId
          /\ Width(ItemOf(m_items, last.pageId)) > Width(o)
          /\ Height(ItemOf(m_items, last.pageId)) > Height(o)
          /\ Width(o) > last.arg.width
          /\ Height(o) >= last.arg.height
          /\ last.ret = QSizeF(Width(o), Height(o))

\* C6: the two-argument getAggregateHardSizeMM leaves the entries and both orders
\* as they were, for a stored and for an absent key.
WhatIfLeavesStore ==
    [][last'.op = "getAggregateHardSizeMM2" =>
          /\ m_items' = m_items
          /\ m_descWidthOrder' = m_descWidthOrder
          /\ m_descHeightOrder' = m_descHeightOrder]_vars

\* The what-if query was asked for an absent key of a non-empty store.
WhatIfLeavesStoreWitness ==
    /\ last.op = "getAggregateHardSizeMM2"
    /\ ~last.found
    /\ Len(m_items) = 1
    /\ last.pageId \notin StoredIds

\* The entry a writer creates for an absent key, from the call recorded in c.
CreatedEntry(c) ==
    LET margins == IF c.op = "setHardMarginsMM" THEN c.arg
                   ELSE [left |-> 10, right |-> 10, top |-> 5, bottom |-> 5]
        align == IF c.op = "setPageAlignment" THEN c.arg
                 ELSE [vert |-> "VCENTER", hor |-> "HCENTER"]
        rect == IF c.op = "setContentZone" THEN c.arg.rect
                ELSE [x |-> 0, y |-> 0, width |-> 0, height |-> 0]
        size == IF c.op = "setContentZone" THEN c.arg.size
                ELSE [width |-> 0, height |-> 0]
    IN  [pageId |-> c.pageId, hardMarginsMM |-> margins, contentRect |-> rect,
         contentSizeMM |-> size, alignment |-> align]

\* C7: a writer called for an absent key creates exactly one entry, holding the
\* supplied fields and the defaults for the rest: margins left 10, right 10,
\* top 5, bottom 5; alignment centered on both axes; content size (0,0); empty
\* content rect.
CreationUsesDefaults ==
    [][(last'.op \in WriteOps /\ ~last'.found) =>
          /\ Len(m_items') = Len(m_items) + 1
          /\ \A i \in 1..Len(m_items) : \E j \in 1..Len(m_items') :
                m_items'[j] = m_items[i]
          /\ \E j \in 1..Len(m_items') : m_items'[j] = CreatedEntry(last')]_vars

\* setPageAlignment created the second entry of the store.
CreationWitness ==
    /\ last.op = "setPageAlignment"
    /\ ~last.found
    /\ Len(m_items) = 2
    /\ last.arg # [vert |-> "VCENTER", hor |-> "HCENTER"]
    /\ getPageParams(Cont, last.pageId).hardMarginsMM.left = 10

\* What a caller can observe of a container: every reader's answer for every
\* page and every hypothetical size.
Observations(C) ==
    [params |-> [k \in PageIds |-> getPageParams(C, k)],
     margins |-> [k \in PageIds |-> getHardMarginsMM(C, k)],
     alignment |-> [k \in PageIds |-> getPageAlignment(C, k)],
     aggregate |-> getAggregateHardSizeMM(C),
     whatIf |-> [k \in PageIds |->
                    [h \in SizeInputs |-> getAggregateHardSizeMM2(C, k, h)]],
     widest |-> findWidestPage(C),
     tallest |-> findTallestPage(C)]

\* C8: on a stored key setHardMarginsMM replaces the margins of that entry and
\* nothing else in the store, and setPageAlignment replaces its alignment and
\* nothing else, so that the aggregate, the widest page and the tallest page are
\* the same before and after a setPageAlignment on a stored key.
ModifyTouchesOneField ==
    [][/\ (last'.op = "setHardMarginsMM" /\ last'.found) =>
              m_items' = [m_items EXCEPT ![find(m_items, last'.pageId)] =
                            [@ EXCEPT !.hardMarginsMM = last'.arg]]
       /\ (last'.op = "setPageAlignment" /\ last'.found) =>
              /\ m_items' = [m_items EXCEPT ![find(m_items, last'.pageId)] =
                               [@ EXCEPT !.alignment = last'.arg]]
              /\ getAggregateHardSizeMM(Cont)' = getAggregateHardSizeMM(Cont)
              /\ findWidestPage(Cont)' = findWidestPage(Cont)
              /\ findTallestPage(Cont)' = findTallestPage(Cont)]_vars

\* setPageAlignment gave a new alignment to the widest of two entries of equal
\* hard width and height.
ModifyWitness ==
    /\ last.op = "setPageAlignment"
    /\ last.found
    /\ ~last.again
    /\ Len(m_items) = 2
    /\ Width(m_items[1]) = Width(m_items[2])
    /\ Height(m_items[1]) = Height(m_items[2])
    /\ findWidestPage(Cont) = last.pageId
    /\ m_items[1].alignment # m_items[2].alignment

\* C9: a key no writer was ever called for has the default margins (left 10,
\* top 5, right 10, bottom 5), the default alignment (centered on both axes) and
\* no parameters, whatever was written for other keys.
DefaultOnAbsence ==
    /\ \A k \in PageIds \ written :
          /\ getHardMarginsMM(Cont, k) =
                [left |-> 10, top |-> 5, right |-> 10, bottom |-> 5]
          /\ getPageAlignment(Cont, k) = [vert |-> "VCENTER", hor |-> "HCENTER"]
          /\ getPageParams(Cont, k) = NullParams
    /\ last.pageId \in PageIds \ written =>
          /\ last.op = "getHardMarginsMM" =>
                last.ret = [left |-> 10, top |-> 5, right |-> 10, bottom |-> 5]
          /\ last.op = "getPageAlignment" =>
                last.ret = [vert |-> "VCENTER", hor |-> "HCENTER"]
          /\ last.op = "getPageParams" => last.ret = NullParams

\* The margins of a never written key were asked while a greater key is stored
\* with other margins.
DefaultOnAbsenceWitness ==
    /\ last.op = "getHardMarginsMM"
    /\ last.pageId \notin written
    /\ \E k \in written :
          /\ k > last.pageId
          /\ getHardMarginsMM(Cont, k) # last.ret

\* C10: a setHardMarginsMM(k, m) that repeats the call just before it leaves
\* every reader's answer as the first call left it.
UpsertIdempotence ==
    [][(/\ last.op = "setHardMarginsMM"
        /\ last'.op = "setHardMarginsMM"
        /\ last'.pageId = last.pageId
        /\ last'.arg = last.arg) =>
          Observations(Cont)' = Observations(Cont)]_vars

\* setHardMarginsMM was repeated on a page that its first call made the widest
\* of two.
UpsertIdempotenceWitness ==
    /\ last.op = "setHardMarginsMM"
    /\ last.again
    /\ Len(m_items) = 2
    /\ findWidestPage(Cont) = last.pageId
    /\ \E o \in ItemSet : Width(o) < Width(ItemOf(m_items, last.pageId))

\* C11: on a non-empty store findWidestPage() gives the key of a stored entry
\* whose hard width is at least that of every entry, and findTallestPage() the
\* key of a stored entry whose hard height is at least that of every entry,
\* whatever writes came before.
ExtremalPagesAreMaximal ==
    ItemSet # {} =>
        /\ findWidestPage(Cont) \in StoredIds
        /\ \A item \in ItemSet :
              Width(ItemOf(m_items, findWidestPage(Cont))) >= Width(item)
        /\ findTallestPage(Cont) \in StoredIds
        /\ \A item \in ItemSet :
              Height(ItemOf(m_items, findTallestPage(Cont))) >= Height(item)
        /\ last.op = "findWidestPage" => last.ret = findWidestPage(Cont)
        /\ last.op = "findTallestPage" => last.ret = findTallestPage(Cont)

\* The widest page was asked of two entries, the second strictly the widest and
\* the first strictly the tallest.
ExtremalPagesWitness ==
    /\ last.op = "findWidestPage"
    /\ Len(m_items) = 2
    /\ last.ret = m_items[2].pageId
    /\ Width(m_items[2]) > Width(m_items[1])
    /\ Height(m_items[1]) > Height(m_items[2])
    /\ findTallestPage(Cont) = m_items[1].pageId

\* C12: while no writer has been called, findWidestPage() and findTallestPage()
\* give the null page id, getAggregateHardSizeMM() gives (0,0), and the
\* two-argument getAggregateHardSizeMM gives (0,0) for every page id and every
\* hypothetical size.
EmptyStoreAnswers ==
    written = {} =>
        /\ findWidestPage(Cont) = 0
        /\ findTallestPage(Cont) = 0
        /\ getAggregateHardSizeMM(Cont) = [width |-> 0, height |-> 0]
        /\ \A k \in PageIds, h \in SizeInputs :
              getAggregateHardSizeMM2(Cont, k, h) = [width |-> 0, height |-> 0]
        /\ last.op \in {"findWidestPage", "findTallestPage"} => last.ret = 0
        /\ last.op \in {"getAggregateHardSizeMM", "getAggregateHardSizeMM2"} =>
              last.ret = [width |-> 0, height |-> 0]

\* The what-if query was asked of the never written store with a hypothetical
\* size that is not (0,0).
EmptyStoreWitness ==
    /\ written = {}
    /\ m_items = <<>>
    /\ last.op = "getAggregateHardSizeMM2"
    /\ last.arg # [width |-> 0, height |-> 0]
    /\ last.ret = [width |-> 0, height |-> 0]

\* C14: on a non-empty store, when the front of the width order is another page
\* than the one named, the what-if width is that front entry's hard width
\* whatever the hypothetical size, also for an absent page and for a
\* hypothetical width above every stored hard width; the height likewise, on
\* its own order.
WhatIfIgnoresNonFront ==
    m_items # <<>> =>
        /\ \A k \in PageIds, h \in SizeInputs :
              LET got == getAggregateHardSizeMM2(Cont, k, h)
              IN  /\ m_descWidthOrder[1] # k =>
                        got.width = Width(ItemOf(m_items, m_descWidthOrder[1]))
                  /\ m_descHeightOrder[1] # k =>
                        got.height = Height(ItemOf(m_items, m_descHeightOrder[1]))
        /\ last.op = "getAggregateHardSizeMM2" =>
              /\ m_descWidthOrder[1] # last.pageId =>
                    last.ret.width = Width(ItemOf(m_items, m_descWidthOrder[1]))
              /\ m_descHeightOrder[1] # last.pageId =>
                    last.ret.height = Height(ItemOf(m_items, m_descHeightOrder[1]))

\* The what-if query named an absent page with a hypothetical width above every
\* stored hard width, and the front entry's smaller width came back.
WhatIfIgnoresNonFrontWitness ==
    /\ last.op = "getAggregateHardSizeMM2"
    /\ ~last.found
    /\ m_items # <<>>
    /\ \A item \in ItemSet : last.arg.width > Width(item)
    /\ last.ret.width = Width(ItemOf(m_items, m_descWidthOrder[1]))
    /\ last.ret.width < last.arg.width

\* C15: when the page named is at the front of the width order, the
\* what-if width is the larger of (hypothetical width + left + right margins of
\* that page's entry) and the runner-up's hard width, or the former alone for a
\* single entry; the height likewise with the top and bottom margins.
WhatIfAddsMargins ==
    \A k \in StoredIds, h \in SizeInputs :
        LET me == ItemOf(m_items, k)
            others == ItemSet \ {me}
            got == getAggregateHardSizeMM2(Cont, k, h)
            w == h.width + me.hardMarginsMM.left + me.hardMarginsMM.right
            t == h.height + me.hardMarginsMM.top + me.hardMarginsMM.bottom
        IN  /\ m_descWidthOrder[1] = k =>
                  got.width = MaxOf({w} \cup {Width(o) : o \in others})
            /\ m_descHeightOrder[1] = k =>
                  got.height = MaxOf({t} \cup {Height(o) : o \in others})

\* C17: no operation removes an entry: every stored page id stays stored, the
\* number of entries never decreases, and getPageParams is non-empty for every
\* page id a writer was ever called for.
EntriesNeverRemoved ==
    [][/\ StoredIds \subseteq StoredIds'
       /\ Len(m_items') >= Len(m_items)
       /\ \A k \in written' : getPageParams(Cont, k)' # NullParams]_vars

\* Both pages are stored and a content zone was set on a stored page that
\* another order now places differently than the page id index.
EntriesNeverRemovedWitness ==
    /\ last.op = "setContentZone"
    /\ last.found
    /\ written = PageIds
    /\ Len(m_items) = 2
    /\ m_descWidthOrder # m_descHeightOrder

\* C18 as stated: when several entries share the largest hard width,
\* findWidestPage() gives the one that comes first in page id order, and
\* findTallestPage() likewise for the largest hard height, whatever the order
\* of the inserts and modifications.
TiesBrokenByKeyOrder ==
    ItemSet # {} =>
        LET widest == {item.pageId : item \in
                         {x \in ItemSet : \A y \in ItemSet : Width(x) >= Width(y)}}
            tallest == {item.pageId : item \in
                          {x \in ItemSet : \A y \in ItemSet : Height(x) >= Height(y)}}
        IN  /\ findWidestPage(Cont) \in widest
            /\ \A k \in widest : findWidestPage(Cont) <= k
            /\ findTallestPage(Cont) \in tallest
            /\ \A k \in tallest : findTallestPage(Cont) <= k

\* C18: ties are broken by the place the entries already have in the order: a
\* write to a stored page leaves the widest page as it was whenever that page's
\* hard width is still the largest after the write, also when an entry with a
\* smaller page id now shares it; the tallest page likewise.
TiesKeepTheFront ==
    [][(last'.op \in WriteOps /\ last'.found) =>
          /\ (\A item \in ItemSet' :
                 Width(ItemOf(m_items', findWidestPage(Cont))) >= Width(item)) =>
                findWidestPage(Cont)' = findWidestPage(Cont)
          /\ (\A item \in ItemSet' :
                 Height(ItemOf(m_items', findTallestPage(Cont))) >= Height(item)) =>
                findTallestPage(Cont)' = findTallestPage(Cont)]_vars

\* A write to the second page left both entries with the same hard width and
\* the second page the widest.
TiesWitness ==
    /\ last.op \in WriteOps
    /\ last.found
    /\ ~last.again
    /\ Len(m_items) = 2
    /\ last.pageId = m_items[2].pageId
    /\ Width(m_items[1]) = Width(m_items[2])
    /\ findWidestPage(Cont) = m_items[2].pageId

\* C19: getPageParams, getHardMarginsMM, getPageAlignment, the one-argument
\* getAggregateHardSizeMM, findWidestPage and findTallestPage leave the entries
\* and both orders as they were; after getHardMarginsMM or getPageAlignment
\* answered an absent page with a default, that page still has no parameters
\* and the aggregate, the widest and the tallest page are as before.
ReadsCreateNothing ==
    [][last'.op \in {"getPageParams", "getHardMarginsMM", "getPageAlignment",
                     "getAggregateHardSizeMM", "findWidestPage",
                     "findTallestPage"} =>
          /\ m_items' = m_items
          /\ m_descWidthOrder' = m_descWidthOrder
          /\ m_descHeightOrder' = m_descHeightOrder
          /\ (last'.op \in {"getHardMarginsMM", "getPageAlignment"}
                /\ ~last'.found) =>
                /\ getPageParams(Container(m_items', m_descWidthOrder',
                                           m_descHeightOrder'),
                                 last'.pageId) = NullParams
                /\ getAggregateHardSizeMM(Cont)' = getAggregateHardSizeMM(Cont)
                /\ findWidestPage(Cont)' = findWidestPage(Cont)
                /\ findTallestPage(Cont)' = findTallestPage(Cont)]_vars

\* getHardMarginsMM answered an absent page with the default margins while
\* another page, of smaller hard width, is stored.
ReadsCreateNothingWitness ==
    /\ last.op = "getHardMarginsMM"
    /\ ~last.found
    /\ last.ret = [left |-> 10, top |-> 5, right |-> 10, bottom |-> 5]
    /\ Len(m_items) = 1
    /\ Width(m_items[1]) < 20
    /\ getPageParams(Cont, last.pageId) = NullParams

\* C20: right after setPageAlignment created the only entry of the store,
\* getAggregateHardSizeMM() is (20,10) and findWidestPage() and
\* findTallestPage() give that page; and in every state the aggregate width is
\* at least left margin + right margin + content width of every stored entry,
\* the aggregate height at least top + bottom + content height.
ImplicitEntryTakesPart ==
    /\ (last.op = "setPageAlignment" /\ ~last.found /\ Len(m_items) = 1) =>
          /\ getAggregateHardSizeMM(Cont) = [width |-> 20, height |-> 10]
          /\ findWidestPage(Cont) = last.pageId
          /\ findTallestPage(Cont) = last.pageId
    /\ \A item \in ItemSet :
          /\ getAggregateHardSizeMM(Cont).width >=
                item.hardMarginsMM.left + item.hardMarginsMM.right
                    + item.contentSizeMM.width
          /\ getAggregateHardSizeMM(Cont).height >=
                item.hardMarginsMM.top + item.hardMarginsMM.bottom
                    + item.contentSizeMM.height

\* setPageAlignment, with an alignment other than the default, created the
\* only entry of the store.
ImplicitEntryWitness ==
    /\ last.op = "setPageAlignment"
    /\ ~last.found
    /\ last.arg = [vert |-> "TOP", hor |-> "LEFT"]
    /\ Len(m_items) = 1
    /\ m_descWidthOrder = <<last.pageId>>
    /\ m_descHeightOrder = <<last.pageId>>

\* C13: with concurrent callers at most one thread is inside a method body and
\* it holds m_mutex; a thread that starts a body finds every order agreeing
\* with the entries' fields; and at its return the container and the value
\* returned are those of the call run alone on the container it found when it
\* got the mutex.
OperationsAreAtomic ==
    /\ Cardinality({t \in Threads : pc[t] \in Inside}) <= 1
    /\ \A t \in Threads : pc[t] \in Inside <=> m_mutex = t
    /\ \A t \in Threads : pc[t] = "body" => OrderConsistency
    /\ \A t \in Threads :
          pc[t] = "return" =>
              /\ Cont = Effect(call[t], call[t].before)
              /\ call[t].ret = Result(call[t], call[t].before)

\* A writer is between its steps, with an order that disagrees with the
\* entries, while the other thread waits at its locker to read the aggregate.
OperationsAreAtomicWitness ==
    \E t, u \in Threads :
        /\ pc[t] \in {"width", "height"}
        /\ ~OrderConsistency
        /\ pc[u] = "lock"
        /\ call[u].op = "getAggregateHardSizeMM"

\* C16: with fair scheduling every thread that has called a method returns
\* from it, by whichever return path the thread holding the mutex leaves.
EveryCallReturns ==
    \A t \in Threads : (pc[t] = "lock") ~> (pc[t] = "done")

\* A thread waits at its locker while the holder of the mutex is about to
\* leave getPageParams by the early return for an absent page.
EveryCallReturnsWitness ==
    \E t, u \in Threads :
        /\ pc[t] = "lock"
        /\ m_mutex = u
        /\ pc[u] = "return"
        /\ call[u].op = "getPageParams"
        /\ call[u].early

====
